---- MODULE Spec2Model ----
(***************************************************************************)
(* Model of WriteThread (db/write_thread.cc): the writer queue, the        *)
(* leader/follower handshake, the batch group builder and the parallel     *)
(* run.  One process per Writer; every step is one critical section of     *)
(* the queue mutex (or of a writer's self_mutex), a condition-variable     *)
(* wait ends the step.  The file operations of EnvNVM (nvm/env_nvm.cc)     *)
(* work on the in-memory directory listing fs_ and on the default          *)
(* environment posix_.                                                      *)
(***************************************************************************)
EXTENDS Integers, Sequences, FiniteSets, TLC

\* Number of client threads (one Writer each).  Writers are numbered in the
\* order in which they call EnterWriteThread.
NumWriters == 3

Writers == 1..NumWriters

NoWriter == 0

\* batch == nullptr
NoBatch == 0 - 1

KiB == 1024

VARIABLES
  writers_,             \* std::deque<Writer*> writers_
  parallel_writers_,    \* parallel_writers_
  unfinished_threads_,  \* std::atomic unfinished_threads_
  writer,               \* the fields of each Writer
  pc,                   \* position of each thread in the write path
  expiration_time,      \* EnterWriteThread's expiration_time (0 = untimed)
  woken,                \* a Signal() reached the condvar the thread blocks on
  last_writer,          \* the leader's last_writer (out of BuildBatchGroup)
  write_batch_group,    \* the leader's write_batch_group (writers whose batch was pushed)
  size,                 \* the value returned to the leader by BuildBatchGroup
  need_wake_up_leader,  \* the value ReportParallelRunFinish returned to the thread
  it,                   \* position of LeaderEndParallel in parallel_writers_
  mutex,                \* holder of the queue mutex across steps (NoWriter = free)
  ret,                  \* Status returned by EnterWriteThread
  assert_ok,            \* no assert() of the code has failed
  leaders,              \* history: writers that returned from enter as leader
  log,                  \* history: batch groups in the order they were committed
  signaled,             \* history: cvs signaled by the last step
  run,                  \* history: the current parallel run
  deref,                \* history: Writers of other threads the last step dereferenced
  fs_,                  \* EnvNVM::fs_: the NvmFiles listed under each directory
  posix_,               \* the directory entries held by the default Env posix_
  nvm_status            \* Status returned by the last call on EnvNVM

vars == <<writers_, parallel_writers_, unfinished_threads_, writer, pc,
          expiration_time, woken, last_writer, write_batch_group, size,
          need_wake_up_leader, it, mutex, ret, assert_ok, leaders, log,
          signaled, run, deref, fs_, posix_, nvm_status>>

\* the state of WriteThread and of its callers
wtVars == <<writers_, parallel_writers_, unfinished_threads_, writer, pc,
            expiration_time, woken, last_writer, write_batch_group, size,
            need_wake_up_leader, it, mutex, ret, assert_ok, leaders, log,
            signaled, run, deref>>

\* the state of EnvNVM
nvmVars == <<fs_, posix_, nvm_status>>

Range(s) == {s[i] : i \in 1..Len(s)}

Back(s) == s[Len(s)]

\* std::deque::erase of the first element equal to w
Erase(q, w) == SelectSeq(q, LAMBDA x : x # w)

----------------------------------------------------------------------------
\* Writer

\* The options a Writer is created with.
Options(batch, sync, disableWAL, has_callback, timeout_hint_us) ==
  [batch |-> batch, sync |-> sync, disableWAL |-> disableWAL,
   has_callback |-> has_callback, timeout_hint_us |-> timeout_hint_us]

\* A freshly constructed Writer.
NewWriter(o) ==
  [batch |-> o.batch, sync |-> o.sync, disableWAL |-> o.disableWAL,
   has_callback |-> o.has_callback, timeout_hint_us |-> o.timeout_hint_us,
   in_batch_group |-> FALSE, parallel_execute_id |-> 0, done |-> FALSE,
   status |-> "OK", cfd_set |-> {}]

DefaultOptions == Options(1 * KiB, FALSE, FALSE, FALSE, 0)

\* WriteBatchInternal::ByteSize
ByteSize(batch) == batch

\* WriteBatch::Count: every batch of the model holds one record
Count(batch) == 1

----------------------------------------------------------------------------
\* Condition variables

\* pcs at which a thread is blocked in w->cv.Wait()/TimedWait()
CvWait == {"enter_wait", "leader_wait"}

\* pc at which a thread is blocked in w->self_cv.Wait()
SelfCvWait == {"self_wait"}

\* cv.Signal() on the cv of every writer in S: wakes a thread blocked on it,
\* and is lost when no thread is blocked.
Signal(wk, S) == [x \in Writers |-> wk[x] \/ (x \in S /\ pc[x] \in CvWait)]

\* self_cv.Signal()
SignalSelf(wk, x) == [wk EXCEPT ![x] = @ \/ pc[x] \in SelfCvWait]

----------------------------------------------------------------------------
\* BuildBatchGroup

MaxSizeMin(sz) == IF sz + 128 * KiB <= 1048576 THEN sz + 128 * KiB ELSE 1048576
\* "if the original write is small, limit the growth"
MaxSize(sz) == IF sz <= 128 * KiB THEN sz + 128 * KiB ELSE 1048576

CompatibleIgnoringCallback(wr, w, first) ==
  /\ ~(wr[w].sync /\ ~wr[first].sync)
  /\ ~(~wr[w].disableWAL /\ wr[first].disableWAL)
  /\ ~(wr[w].timeout_hint_us < wr[first].timeout_hint_us)
  /\ ~(wr[w].batch = NoBatch)
\* none of the first five breaks of the scan loop applies to w
Compatible(wr, w, first) ==
  /\ ~(wr[w].sync /\ ~wr[first].sync)
  /\ ~(~wr[w].disableWAL /\ wr[first].disableWAL)
  /\ ~(wr[w].timeout_hint_us < wr[first].timeout_hint_us)
  /\ ~wr[w].has_callback
  /\ ~(wr[w].batch = NoBatch)

TooBigNever(sz, max_size) == FALSE
\* "Do not make batch too big"
TooBig(sz, max_size) == sz > max_size

RECURSIVE ScanWritersSkipping(_, _, _, _, _)
ScanWritersSkipping(q, wr, first, i, st) ==
  IF i > Len(q) THEN st
  ELSE LET w == q[i] IN
    IF ~Compatible(wr, w, first)
    THEN ScanWritersSkipping(q, wr, first, i + 1, st)
    ELSE LET sz == st.size + ByteSize(wr[w].batch) IN
      IF TooBig(sz, st.max_size) THEN [st EXCEPT !.size = sz]
      ELSE ScanWritersSkipping(q, wr, first, i + 1,
             [st EXCEPT !.size = sz,
                        !.group = Append(@, w),
                        !.last_writer = w])
\* the for loop over writers_, from position i
RECURSIVE ScanWriters(_, _, _, _, _)
ScanWriters(q, wr, first, i, st) ==
  IF i > Len(q) THEN st
  ELSE LET w == q[i] IN
    IF ~Compatible(wr, w, first) THEN st
    ELSE LET sz == st.size + ByteSize(wr[w].batch) IN
      IF TooBig(sz, st.max_size) THEN [st EXCEPT !.size = sz]
      ELSE ScanWriters(q, wr, first, i + 1,
             [st EXCEPT !.size = sz,
                        !.group = Append(@, w),
                        !.last_writer = w])

\* first->has_callback: batching not supported
FirstOnly(wr, first) == wr[first].has_callback

\* The result of BuildBatchGroup on queue q: the returned size, *last_writer
\* and the writers whose batches were pushed to write_batch_group.
BuildBatchGroupResult(q, wr) ==
  LET first == Head(q)
      sz == ByteSize(wr[first].batch)
      st0 == [size |-> sz, max_size |-> MaxSize(sz),
              group |-> <<first>>, last_writer |-> first]
  IN IF FirstOnly(wr, first) THEN st0
     ELSE ScanWriters(q, wr, first, 2, st0)

----------------------------------------------------------------------------
\* EnterWriteThread

LoopCondBack(wr, q, w) ==
  ~wr[w].done /\ wr[w].parallel_execute_id <= 0 /\ w # Back(q)
\* the condition of the wait loop
LoopCond(wr, q, w) ==
  ~wr[w].done /\ wr[w].parallel_execute_id <= 0 /\ w # Head(q)

GiveUpAlways(wr, w) == TRUE
\* a timed wait that expired gives up unless a leader has taken the writer
\* into its batch group
GiveUp(wr, w) == ~wr[w].in_batch_group

TimedOutSignalNone(q) == {}
\* "writers_.front() might still be in cond_wait without a time-out"
TimedOutSignal(q) == IF q # <<>> THEN {Head(q)} ELSE {}

\* What the thread that called enter does with an OK return: a promoted
\* writer applies its own batch, an absorbed writer returns, the head leads.
WriteDispatch(wr, w) ==
  IF ~wr[w].done /\ wr[w].parallel_execute_id > 0 THEN "parallel_worker"
  ELSE IF wr[w].done THEN "returned"
  ELSE "leader"

\* The code after the wait loop: return OK, or erase w and return TimedOut.
AfterLoop(w, timed_out) ==
  IF ~writer[w].done /\ writer[w].parallel_execute_id > 0
  THEN /\ ret' = [ret EXCEPT ![w] = "OK"]
       /\ pc' = [pc EXCEPT ![w] = WriteDispatch(writer, w)]
       /\ UNCHANGED writers_
       /\ woken' = [woken EXCEPT ![w] = FALSE]
       /\ signaled' = {}
       /\ deref' = {}
       /\ UNCHANGED <<assert_ok, leaders>>
  ELSE IF timed_out
  THEN LET q2 == Erase(writers_, w) IN
       /\ ret' = [ret EXCEPT ![w] = "TimedOut"]
       /\ pc' = [pc EXCEPT ![w] = "returned"]
       /\ writers_' = q2
       /\ assert_ok' = (assert_ok /\ w \in Range(writers_))
       /\ woken' = [Signal(woken, TimedOutSignal(q2)) EXCEPT ![w] = FALSE]
       /\ signaled' = TimedOutSignal(q2)
       /\ deref' = TimedOutSignal(q2)
       /\ UNCHANGED leaders
  ELSE /\ ret' = [ret EXCEPT ![w] = "OK"]
       /\ pc' = [pc EXCEPT ![w] = WriteDispatch(writer, w)]
       /\ UNCHANGED writers_
       /\ woken' = [woken EXCEPT ![w] = FALSE]
       /\ signaled' = {}
       /\ deref' = {}
       /\ leaders' = IF WriteDispatch(writer, w) = "leader"
                     THEN Append(leaders, w) ELSE leaders
       /\ UNCHANGED assert_ok

\* One evaluation of the loop condition: block again or leave the loop.
LoopStep(w, exp) ==
  IF LoopCond(writer, writers_, w)
  THEN /\ pc' = [pc EXCEPT ![w] = "enter_wait"]
       /\ woken' = [woken EXCEPT ![w] = FALSE]
       /\ expiration_time' = [expiration_time EXCEPT ![w] = exp]
       /\ UNCHANGED writers_
       /\ signaled' = {}
       /\ deref' = {}
       /\ UNCHANGED <<ret, assert_ok, leaders>>
  ELSE /\ expiration_time' = [expiration_time EXCEPT ![w] = exp]
       /\ AfterLoop(w, FALSE)

\* enter(w, expiration_time): push_back and the first evaluation of the loop
EnterWriteThread(w, o, exp) ==
  /\ UNCHANGED nvmVars
  /\ pc[w] = "init"
  /\ mutex = NoWriter
  /\ \A v \in Writers : v < w => pc[v] # "init"
  /\ writer' = [writer EXCEPT ![w] = NewWriter(o)]
  /\ IF LoopCond(writer', Append(writers_, w), w)
     THEN /\ pc' = [pc EXCEPT ![w] = "enter_wait"]
          /\ woken' = [woken EXCEPT ![w] = FALSE]
          /\ UNCHANGED <<ret, leaders>>
     ELSE /\ pc' = [pc EXCEPT ![w] = WriteDispatch(writer', w)]
          /\ ret' = [ret EXCEPT ![w] = "OK"]
          /\ leaders' = Append(leaders, w)
          /\ UNCHANGED woken
  /\ writers_' = Append(writers_, w)
  /\ expiration_time' = [expiration_time EXCEPT ![w] = exp]
  /\ signaled' = {}
  /\ deref' = {}
  /\ UNCHANGED <<parallel_writers_, unfinished_threads_, last_writer,
                 write_batch_group, size, need_wake_up_leader, it, mutex,
                 assert_ok, log, run>>

\* cv.Wait() or cv.TimedWait() returns because the cv was signaled
EnterWakeUp(w) ==
  /\ UNCHANGED nvmVars
  /\ pc[w] = "enter_wait"
  /\ woken[w]
  /\ mutex = NoWriter
  /\ LoopStep(w, expiration_time[w])
  /\ UNCHANGED <<parallel_writers_, unfinished_threads_, writer, last_writer,
                 write_batch_group, size, need_wake_up_leader, it, mutex,
                 log, run>>

\* cv.TimedWait() returns true: the expiration time has passed
EnterTimedWaitExpires(w) ==
  /\ UNCHANGED nvmVars
  /\ pc[w] = "enter_wait"
  /\ expiration_time[w] # 0
  /\ mutex = NoWriter
  /\ IF GiveUp(writer, w)
     THEN /\ AfterLoop(w, TRUE)
          /\ UNCHANGED expiration_time
     ELSE LoopStep(w, 0)
  /\ UNCHANGED <<parallel_writers_, unfinished_threads_, writer, last_writer,
                 write_batch_group, size, need_wake_up_leader, it, mutex,
                 log, run>>

\* A condition-variable wait may return without a signal.
SpuriousWakeUp(w) ==
  /\ UNCHANGED nvmVars
  /\ pc[w] \in CvWait \cup SelfCvWait
  /\ ~woken[w]
  /\ woken' = [woken EXCEPT ![w] = TRUE]
  /\ signaled' = {}
  /\ deref' = {}
  /\ UNCHANGED <<writers_, parallel_writers_, unfinished_threads_, writer, pc,
                 expiration_time, last_writer, write_batch_group, size,
                 need_wake_up_leader, it, mutex, ret, assert_ok, leaders,
                 log, run>>

----------------------------------------------------------------------------
\* The leader: BuildBatchGroup, then ExitWriteThread or the parallel run

\* in_batch_group = true for every merged writer past first
MarkGroup(wr, group) ==
  [x \in Writers |->
     IF x \in Range(group) /\ x # Head(group)
     THEN [wr[x] EXCEPT !.in_batch_group = TRUE] ELSE wr[x]]

\* the writers whose fields the scan reads: first, the merged ones and the
\* writer at which the loop breaks
Scanned(q, wr) ==
  IF q = <<>> THEN {}
  ELSE IF wr[Head(q)].batch = NoBatch \/ FirstOnly(wr, Head(q)) THEN {Head(q)}
  ELSE LET n == Len(BuildBatchGroupResult(q, wr).group) IN
       {q[i] : i \in 1..(IF n < Len(q) THEN n + 1 ELSE n)}

BuildBatchGroup(w) ==
  /\ UNCHANGED nvmVars
  /\ pc[w] = "leader"
  /\ mutex = NoWriter
  /\ IF writers_ # <<>> /\ writer[Head(writers_)].batch # NoBatch
     THEN LET r == BuildBatchGroupResult(writers_, writer) IN
          /\ writer' = MarkGroup(writer, r.group)
          /\ last_writer' = [last_writer EXCEPT ![w] = r.last_writer]
          /\ write_batch_group' = [write_batch_group EXCEPT ![w] = r.group]
          /\ size' = [size EXCEPT ![w] = r.size]
          /\ pc' = [pc EXCEPT ![w] = "wal"]
          /\ UNCHANGED assert_ok
     ELSE /\ assert_ok' = FALSE
          /\ pc' = [pc EXCEPT ![w] = "aborted"]
          /\ UNCHANGED <<writer, last_writer, write_batch_group, size>>
  /\ signaled' = {}
  /\ deref' = Scanned(writers_, writer) \ {w}
  /\ UNCHANGED <<writers_, parallel_writers_, unfinished_threads_,
                 expiration_time, woken, need_wake_up_leader, it, mutex, ret,
                 leaders, log, run>>

\* position of x in q, Len(q) + 1 when x is not in q
RECURSIVE IndexOf(_, _, _)
IndexOf(q, x, i) ==
  IF i > Len(q) \/ q[i] = x THEN i ELSE IndexOf(q, x, i + 1)

PoppedThroughHeadOnly(q, last) == IF q = <<>> THEN 0 ELSE 1
PoppedThroughAll(q, last) == Len(q)
PoppedThroughBeforeLast(q, last) ==
  LET i == IndexOf(q, last, 1) IN IF i > Len(q) THEN Len(q) ELSE i - 1
\* number of writers the pop loop of ExitWriteThread removes: the head
\* writers up to and including last (all of them when last is not queued)
PoppedThrough(q, last) ==
  LET i == IndexOf(q, last, 1) IN IF i > Len(q) THEN Len(q) ELSE i

NewHeadSignalNone(q) == {}
\* "Notify new head of write queue"
NewHeadSignal(q) == IF q # <<>> THEN {Head(q)} ELSE {}

ReadyWithLeader(q, n, w) == {q[i] : i \in 1..n}
\* the popped writers that are given status and done: "if (ready != w)"
Ready(q, n, w) == {q[i] : i \in 1..n} \ {w}

ExitWriteThread(w, status) ==
  /\ UNCHANGED nvmVars
  /\ pc[w] = "wal"
  /\ mutex = NoWriter
  /\ LET n == PoppedThrough(writers_, last_writer[w])
         ready == Ready(writers_, n, w)
         q2 == SubSeq(writers_, n + 1, Len(writers_))
     IN /\ writers_' = q2
        /\ writer' = [x \in Writers |->
                        IF x \in ready
                        THEN [writer[x] EXCEPT !.status = status, !.done = TRUE]
                        ELSE writer[x]]
        /\ woken' = Signal(woken, ready \cup NewHeadSignal(q2))
        /\ signaled' = ready \cup NewHeadSignal(q2)
        /\ deref' = ready \cup NewHeadSignal(q2)
  /\ pc' = [pc EXCEPT ![w] = "returned"]
  /\ log' = Append(log, write_batch_group[w])
  /\ UNCHANGED <<parallel_writers_, unfinished_threads_, expiration_time,
                 last_writer, write_batch_group, size, need_wake_up_leader,
                 it, mutex, ret, assert_ok, leaders, run>>

----------------------------------------------------------------------------
\* Parallel run

\* parallel_id of the i-th writer moved to parallel_writers_
RECURSIVE ParallelId(_, _, _)
ParallelId(q, wr, i) ==
  IF i = 1 THEN 1 ELSE ParallelId(q, wr, i - 1) + Count(wr[q[i - 1]].batch)

\* number of writers StartParallelRun moves to parallel_writers_
MovedThrough(q, last) ==
  LET i == IndexOf(q, last, 1) IN IF i > Len(q) THEN Len(q) ELSE i

RemainingPopLast(q, last) ==
  LET i == IndexOf(q, last, 1) IN
  IF i > Len(q) THEN <<>> ELSE SubSeq(q, i + 1, Len(q))
\* writers_ after the loop: last_writer is left at the head
Remaining(q, last) ==
  LET i == IndexOf(q, last, 1) IN
  IF i > Len(q) THEN <<>> ELSE SubSeq(q, i, Len(q))

StoreOneLess(num_threads) == num_threads - 1
\* unfinished_threads_.store(num_threads)
Store(num_threads) == num_threads

StartParallelRun(w) ==
  /\ UNCHANGED nvmVars
  /\ pc[w] = "wal"
  /\ mutex = NoWriter
  /\ LET num_threads == Len(write_batch_group[w])
         n == MovedThrough(writers_, last_writer[w])
         moved == SubSeq(writers_, 1, n)
     IN /\ unfinished_threads_' = Store(num_threads)
        /\ parallel_writers_' = parallel_writers_ \o moved
        /\ writer' = [x \in Writers |->
                        IF x \in Range(moved)
                        THEN [writer[x] EXCEPT !.parallel_execute_id =
                                ParallelId(writers_, writer,
                                           IndexOf(writers_, x, 1))]
                        ELSE writer[x]]
        /\ writers_' = Remaining(writers_, last_writer[w])
        /\ woken' = Signal(woken, Range(moved) \ {w})
        /\ signaled' = Range(moved) \ {w}
        /\ deref' = Range(moved) \ {w}
        /\ assert_ok' = (/\ assert_ok
                         /\ unfinished_threads_ = 0
                         /\ num_threads = Len(parallel_writers_'))
        /\ run' = [id |-> run.id + 1, leader |-> w, threads |-> num_threads,
                   participants |-> Range(moved), reported |-> {},
                   returned_true |-> {}, zero_at_start |-> unfinished_threads_ = 0,
                   cfds |-> UNION {writer[x].cfd_set : x \in Range(moved)}]
  /\ pc' = [pc EXCEPT ![w] = "parallel_leader"]
  /\ log' = Append(log, write_batch_group[w])
  /\ UNCHANGED <<expiration_time, last_writer, write_batch_group, size,
                 need_wake_up_leader, it, mutex, ret, leaders>>

\* column families a batch can touch
ColumnFamilies == {"default", "cf1"}

\* A thread of the run applies a record of its own batch to the memtable of
\* column family cf, which enters the Writer's cfd_set.
InsertInto(w, cf) ==
  /\ UNCHANGED nvmVars
  /\ pc[w] \in {"parallel_leader", "parallel_worker"}
  /\ cf \notin writer[w].cfd_set
  /\ writer' = [writer EXCEPT ![w].cfd_set = @ \cup {cf}]
  /\ run' = [run EXCEPT !.cfds = @ \cup {cf}]
  /\ signaled' = {}
  /\ deref' = {}
  /\ UNCHANGED <<writers_, parallel_writers_, unfinished_threads_, pc,
                 expiration_time, woken, last_writer, write_batch_group, size,
                 need_wake_up_leader, it, mutex, ret, assert_ok, leaders, log>>

LastIfZeroBefore(old) == old = 0
\* fetch_add(-1) == 1
WasLast(old) == old = 1

ReportParallelRunFinish(w) ==
  /\ UNCHANGED nvmVars
  /\ pc[w] \in {"parallel_leader", "parallel_worker"}
  /\ unfinished_threads_' = unfinished_threads_ - 1
  /\ need_wake_up_leader' =
       [need_wake_up_leader EXCEPT ![w] = WasLast(unfinished_threads_)]
  /\ pc' = [pc EXCEPT ![w] =
              IF pc[w] = "parallel_leader" THEN "leader_wait_entry"
              ELSE IF WasLast(unfinished_threads_) THEN "end_signal"
              ELSE "end_self"]
  /\ run' = [run EXCEPT !.reported = @ \cup {w},
                        !.returned_true =
                           IF WasLast(unfinished_threads_) THEN @ \cup {w} ELSE @]
  /\ signaled' = {}
  /\ deref' = {}
  /\ UNCHANGED <<writers_, parallel_writers_, writer, expiration_time, woken,
                 last_writer, write_batch_group, size, it, mutex, ret,
                 assert_ok, leaders, log>>

\* LeaderWaitEndParallel: one evaluation of the loop condition, on entry or
\* after a wake-up; the leader goes on to LeaderEndParallel under the mutex
LeaderWaitEndParallel(w) ==
  /\ UNCHANGED nvmVars
  /\ pc[w] = "leader_wait_entry" \/ (pc[w] = "leader_wait" /\ woken[w])
  /\ mutex = NoWriter
  /\ IF unfinished_threads_ # 0
     THEN /\ pc' = [pc EXCEPT ![w] = "leader_wait"]
          /\ UNCHANGED <<mutex, it>>
     ELSE /\ pc' = [pc EXCEPT ![w] = "leader_end"]
          /\ mutex' = w
          /\ it' = 1
  /\ woken' = [woken EXCEPT ![w] = FALSE]
  /\ signaled' = {}
  /\ deref' = {}
  /\ UNCHANGED <<writers_, parallel_writers_, unfinished_threads_, writer,
                 expiration_time, last_writer, write_batch_group, size,
                 need_wake_up_leader, ret, assert_ok, leaders, log, run>>

InsertNothing(self_set, other_set) == self_set
\* self->cfd_set.insert(parallel_writer->cfd_set.begin(), ...end())
Insert(self_set, other_set) == self_set \cup other_set

\* LeaderEndParallel, one iteration of "Tag all as done"
LeaderEndParallelTag(w) ==
  /\ UNCHANGED nvmVars
  /\ pc[w] = "leader_end"
  /\ mutex = w
  /\ it <= Len(parallel_writers_)
  /\ LET parallel_writer == parallel_writers_[it] IN
     IF parallel_writer # w
     THEN /\ writer' = [writer EXCEPT
                          ![w].cfd_set =
                             Insert(@, writer[parallel_writer].cfd_set),
                          ![parallel_writer].done = TRUE]
          /\ woken' = SignalSelf(woken, parallel_writer)
          /\ deref' = {parallel_writer}
     ELSE /\ UNCHANGED <<writer, woken>>
          /\ deref' = {}
  /\ assert_ok' = (assert_ok /\ unfinished_threads_ = 0)
  /\ it' = it + 1
  /\ signaled' = {}
  /\ UNCHANGED <<writers_, parallel_writers_, unfinished_threads_, pc,
                 expiration_time, last_writer, write_batch_group, size,
                 need_wake_up_leader, mutex, ret, leaders, log, run>>

\* LeaderEndParallel after the loop: the asserts, clear, pop, signal
LeaderEndParallelPop(w) ==
  /\ UNCHANGED nvmVars
  /\ pc[w] = "leader_end"
  /\ mutex = w
  /\ it > Len(parallel_writers_)
  /\ IF /\ writers_ # <<>>
        /\ parallel_writers_ # <<>>
        /\ Back(parallel_writers_) = Head(writers_)
        /\ Back(parallel_writers_) = last_writer[w]
     THEN /\ parallel_writers_' = <<>>
          /\ writers_' = Tail(writers_)
          /\ woken' = Signal(woken, NewHeadSignal(Tail(writers_)))
          /\ signaled' = NewHeadSignal(Tail(writers_))
          /\ deref' = NewHeadSignal(Tail(writers_))
          /\ pc' = [pc EXCEPT ![w] = "returned"]
          /\ UNCHANGED assert_ok
     ELSE /\ assert_ok' = FALSE
          /\ pc' = [pc EXCEPT ![w] = "aborted"]
          /\ signaled' = {}
          /\ deref' = {}
          /\ UNCHANGED <<parallel_writers_, writers_, woken>>
  /\ mutex' = NoWriter
  /\ it' = 0
  /\ UNCHANGED <<unfinished_threads_, writer, expiration_time, last_writer,
                 write_batch_group, size, need_wake_up_leader, ret, leaders,
                 log, run>>

\* EndParallelRun, need_wake_up_leader: signal the leader under the db mutex
EndParallelRunWakeLeader(w) ==
  /\ UNCHANGED nvmVars
  /\ pc[w] = "end_signal"
  /\ mutex = NoWriter
  /\ LET leader == IF parallel_writers_ # <<>>
                   THEN {Head(parallel_writers_)} ELSE {}
     IN /\ woken' = Signal(woken, leader)
        /\ signaled' = leader
        /\ deref' = leader
  /\ pc' = [pc EXCEPT ![w] = "end_self"]
  /\ UNCHANGED <<writers_, parallel_writers_, unfinished_threads_, writer,
                 expiration_time, last_writer, write_batch_group, size,
                 need_wake_up_leader, it, mutex, ret, assert_ok, leaders,
                 log, run>>

SelfWaitCondNever(wr, w) == FALSE
\* while (!w->done)
SelfWaitCond(wr, w) == ~wr[w].done

\* EndParallelRun, under self_mutex: one evaluation of while (!w->done)
EndParallelRunWait(w) ==
  /\ UNCHANGED nvmVars
  /\ pc[w] = "end_self" \/ (pc[w] = "self_wait" /\ woken[w])
  /\ pc' = [pc EXCEPT ![w] =
              IF SelfWaitCond(writer, w) THEN "self_wait" ELSE "returned"]
  /\ woken' = [woken EXCEPT ![w] = FALSE]
  /\ signaled' = {}
  /\ deref' = {}
  /\ UNCHANGED <<writers_, parallel_writers_, unfinished_threads_, writer,
                 expiration_time, last_writer, write_batch_group, size,
                 need_wake_up_leader, it, mutex, ret, assert_ok, leaders,
                 log, run>>

----------------------------------------------------------------------------
\* The protocol

Statuses == {"OK", "IOError"}

\* directories and file names of the file operations; a name is the
\* sequence of its dot-separated parts
Dirs == {"db", "wal"}

Fnames == {<<"1", "sst">>, <<"2", "sst">>, <<"LOG">>}

\* EnvNVM after construction: no file loaded, nothing in the directories
EmptyEnv ==
  /\ fs_ = [d \in Dirs |-> <<>>]
  /\ posix_ = {}
  /\ nvm_status = "none"

\* options of the writers of the protocol runs
ProtocolOptions ==
  {Options(1 * KiB, FALSE, FALSE, FALSE, 0),
   Options(1 * KiB, TRUE, FALSE, FALSE, 0),
   Options(1 * KiB, FALSE, FALSE, FALSE, 1)}

Init ==
  /\ writers_ = <<>>
  /\ parallel_writers_ = <<>>
  /\ unfinished_threads_ = 0
  /\ writer = [w \in Writers |-> NewWriter(DefaultOptions)]
  /\ pc = [w \in Writers |-> "init"]
  /\ expiration_time = [w \in Writers |-> 0]
  /\ woken = [w \in Writers |-> FALSE]
  /\ last_writer = [w \in Writers |-> NoWriter]
  /\ write_batch_group = [w \in Writers |-> <<>>]
  /\ size = [w \in Writers |-> 0]
  /\ need_wake_up_leader = [w \in Writers |-> FALSE]
  /\ it = 0
  /\ mutex = NoWriter
  /\ ret = [w \in Writers |-> "none"]
  /\ assert_ok = TRUE
  /\ leaders = <<>>
  /\ log = <<>>
  /\ signaled = {}
  /\ run = [id |-> 0, leader |-> NoWriter, threads |-> 0, participants |-> {},
            reported |-> {}, returned_true |-> {}, zero_at_start |-> TRUE,
            cfds |-> {}]
  /\ deref = {}
  /\ EmptyEnv

Next ==
  \E w \in Writers :
    \/ \E o \in ProtocolOptions :
         EnterWriteThread(w, o, IF o.timeout_hint_us = 0 THEN 0 ELSE 1)
    \/ EnterWakeUp(w)
    \/ EnterTimedWaitExpires(w)
    \/ SpuriousWakeUp(w)
    \/ BuildBatchGroup(w)
    \/ \E status \in Statuses : ExitWriteThread(w, status)
    \/ StartParallelRun(w)
    \/ ReportParallelRunFinish(w)
    \/ LeaderWaitEndParallel(w)
    \/ LeaderEndParallelTag(w)
    \/ LeaderEndParallelPop(w)
    \/ EndParallelRunWakeLeader(w)
    \/ EndParallelRunWait(w)

Spec == Init /\ [][Next]_vars

\* The protocol with the memtable inserts of the parallel runs: untimed
\* writers, each thread of a run touching any of the column families.
CfdNext ==
  \E w \in Writers :
    \/ EnterWriteThread(w, DefaultOptions, 0)
    \/ EnterWakeUp(w)
    \/ SpuriousWakeUp(w)
    \/ BuildBatchGroup(w)
    \/ \E status \in Statuses : ExitWriteThread(w, status)
    \/ StartParallelRun(w)
    \/ \E cf \in ColumnFamilies : InsertInto(w, cf)
    \/ ReportParallelRunFinish(w)
    \/ LeaderWaitEndParallel(w)
    \/ LeaderEndParallelTag(w)
    \/ LeaderEndParallelPop(w)
    \/ EndParallelRunWakeLeader(w)
    \/ EndParallelRunWait(w)

CfdSpec == Init /\ [][CfdNext]_vars

----------------------------------------------------------------------------
\* BuildBatchGroup on every queue content

\* options of the queued writers: every combination of the flags on a small
\* batch, and the batch sizes around the two thresholds of the size cap
BatchOptions ==
  {Options(1 * KiB, s, d, c, t) :
     s \in BOOLEAN, d \in BOOLEAN, c \in BOOLEAN, t \in {0, 1}}
  \cup {Options(b, FALSE, FALSE, FALSE, 0) :
          b \in {NoBatch, 128 * KiB, 512 * KiB, 2048 * KiB}}

\* A queue of n writers, its head returned from enter as leader, the others
\* blocked in enter.
BatchInit ==
  \E n \in Writers :
    /\ writers_ = [i \in 1..n |-> i]
    /\ writer \in [Writers -> {NewWriter(o) : o \in BatchOptions}]
    /\ writer[1].batch # NoBatch
    /\ \A w \in Writers : w > n => writer[w] = NewWriter(DefaultOptions)
    /\ pc = [w \in Writers |->
               IF w = 1 THEN "leader" ELSE IF w <= n THEN "enter_wait" ELSE "init"]
    /\ expiration_time = [w \in Writers |-> 0]
    /\ ret = [w \in Writers |-> IF w = 1 THEN "OK" ELSE "none"]
    /\ leaders = <<1>>
  /\ parallel_writers_ = <<>>
  /\ unfinished_threads_ = 0
  /\ woken = [w \in Writers |-> FALSE]
  /\ last_writer = [w \in Writers |-> NoWriter]
  /\ write_batch_group = [w \in Writers |-> <<>>]
  /\ size = [w \in Writers |-> 0]
  /\ need_wake_up_leader = [w \in Writers |-> FALSE]
  /\ it = 0
  /\ mutex = NoWriter
  /\ assert_ok = TRUE
  /\ log = <<>>
  /\ signaled = {}
  /\ run = [id |-> 0, leader |-> NoWriter, threads |-> 0, participants |-> {},
            reported |-> {}, returned_true |-> {}, zero_at_start |-> TRUE,
            cfds |-> {}]
  /\ deref = {}
  /\ EmptyEnv

BatchNext == \E w \in Writers : BuildBatchGroup(w)

BatchSpec == BatchInit /\ [][BatchNext]_vars

----------------------------------------------------------------------------
\* EnvNVM: file operations

\* FPathInfo of a path: its directory and its file name
FPathInfo(d, f) == [dpath |-> d, fname |-> f]

Paths == {FPathInfo(d, f) : d \in Dirs, f \in Fnames}

\* FPathInfo::nvm_managed: the table files are kept on the NVM device
nvm_managed(info) == Back(info.fname) = "sst"

\* FPathInfo::ends_with, on the parts of a name
ends_with(entry, part) == entry # <<>> /\ Back(entry) = part

\* the name of the meta-file an NvmFile keeps in the default environment
MetaName(f) == Append(f, "meta")

\* posix_->GetChildren(dpath)
GetChildren(d) == {e.fname : e \in {x \in posix_ : x.dpath = d}}

\* position of the first file of listing named f, 0 when there is none
RECURSIVE IsNamedAt(_, _, _)
IsNamedAt(listing, f, i) ==
  IF i > Len(listing) THEN 0
  ELSE IF listing[i] = f THEN i ELSE IsNamedAt(listing, f, i + 1)

\* entry.compare(0, fname.size(), fname) == 0
StartsWith(entry, f) ==
  Len(entry) >= Len(f) /\ SubSeq(entry, 1, Len(f)) = f

\* FindFileUnguarded: the file listed in fs, else a file built from a
\* meta-file of the default environment (which is not entered in fs), else
\* NULL
FindFileUnguarded(fs, info) ==
  LET i == IsNamedAt(fs[info.dpath], info.fname, 1) IN
  IF i # 0 THEN [kind |-> "listed", at |-> i]
  ELSE IF \E entry \in GetChildren(info.dpath) :
            ends_with(entry, "meta") /\ StartsWith(entry, info.fname)
  THEN [kind |-> "meta", at |-> 0]
  ELSE [kind |-> "null", at |-> 0]

\* removal of the i-th element of a listing
EraseAt(listing, i) ==
  SubSeq(listing, 1, i - 1) \o SubSeq(listing, i + 1, Len(listing))

\* DeleteFileUnguarded: the listing after the call and the returned Status
DeleteFileUnguarded(fs, info) ==
  LET i == IsNamedAt(fs[info.dpath], info.fname, 1) IN
  IF i = 0 THEN [fs |-> fs, status |-> "NotFound"]
  ELSE [fs |-> [fs EXCEPT ![info.dpath] = EraseAt(@, i)], status |-> "OK"]

\* the test that guards RenameFile against a rename across the boundary
\* between NVM and the default environment:
\* info_src.nvm_managed() ^ info_src.nvm_managed()
Across(info_src, info_tgt) ==
  nvm_managed(info_src) # nvm_managed(info_src)

\* NewWritableFile: a file of the default environment is created there; an
\* NVM file replaces the one of its name and is appended to its directory
NewWritableFile(info) ==
  /\ UNCHANGED wtVars
  /\ IF ~nvm_managed(info)
     THEN /\ posix_' = posix_ \cup {info}
          /\ UNCHANGED fs_
     ELSE LET file == FindFileUnguarded(fs_, info)
              fs1 == IF file.kind # "null"
                     THEN DeleteFileUnguarded(fs_, info).fs ELSE fs_
          IN /\ fs_' = [fs1 EXCEPT ![info.dpath] = Append(@, info.fname)]
             /\ UNCHANGED posix_
  /\ nvm_status' = "OK"

\* An NvmFile of the listing writes its meta-file to the default
\* environment.
WriteMeta(info) ==
  /\ UNCHANGED wtVars
  /\ IsNamedAt(fs_[info.dpath], info.fname, 1) # 0
  /\ posix_' = posix_ \cup {FPathInfo(info.dpath, MetaName(info.fname))}
  /\ UNCHANGED <<fs_, nvm_status>>

\* posix_->RenameFile
PosixRenameFile(info_src, info_tgt) ==
  IF info_src \in posix_
  THEN /\ posix_' = (posix_ \ {info_src}) \cup {info_tgt}
       /\ nvm_status' = "OK"
  ELSE /\ UNCHANGED posix_
       /\ nvm_status' = "IOError"

RenameFile(info_src, info_tgt) ==
  /\ UNCHANGED wtVars
  /\ IF Across(info_src, info_tgt)
     THEN /\ nvm_status' = "IOError"
          /\ UNCHANGED <<fs_, posix_>>
     ELSE IF ~nvm_managed(info_src)
     THEN /\ PosixRenameFile(info_src, info_tgt)
          /\ UNCHANGED fs_
     ELSE IF info_src.dpath # info_tgt.dpath
     THEN /\ nvm_status' = "IOError"
          /\ UNCHANGED <<fs_, posix_>>
     ELSE LET file == FindFileUnguarded(fs_, info_src)
              file_target == FindFileUnguarded(fs_, info_tgt)
              fs1 == IF file_target.kind # "null"
                     THEN DeleteFileUnguarded(fs_, info_tgt).fs ELSE fs_
              at == IsNamedAt(fs1[info_src.dpath], info_src.fname, 1)
          IN IF file.kind = "null"
             THEN /\ nvm_status' = "NotFound"
                  /\ UNCHANGED <<fs_, posix_>>
             ELSE \* file->Rename(info_tgt.fname()); a file that is not
                  \* (or no longer) in the listing leaves the listing as it is
                  /\ fs_' = IF file.kind = "listed" /\ at # 0
                            THEN [fs1 EXCEPT ![info_src.dpath][at] = info_tgt.fname]
                            ELSE fs1
                  /\ nvm_status' = "OK"
                  /\ UNCHANGED posix_

\* posix_->FileExists
PosixFileExists(info) == IF info \in posix_ THEN "OK" ELSE "NotFound"

\* The Status FileExists returns in the current state: a path of the
\* default environment is looked up there, an NVM path by FindFileUnguarded.
FileExistsStatus(info) ==
  IF ~nvm_managed(info) THEN PosixFileExists(info)
  ELSE IF FindFileUnguarded(fs_, info).kind # "null" THEN "OK"
  ELSE "NotFound"

FileExists(info) ==
  /\ UNCHANGED wtVars
  /\ nvm_status' = FileExistsStatus(info)
  /\ UNCHANGED <<fs_, posix_>>

\* DeleteFile: a path that is not NVM-managed is handed to
\* posix_->FileExists; an NVM path goes to DeleteFileUnguarded
DeleteFile(info) ==
  /\ UNCHANGED wtVars
  /\ IF ~nvm_managed(info)
     THEN /\ nvm_status' = PosixFileExists(info)
          /\ UNCHANGED <<fs_, posix_>>
     ELSE LET r == DeleteFileUnguarded(fs_, info) IN
          /\ fs_' = r.fs
          /\ nvm_status' = r.status
          /\ UNCHANGED posix_

\* the files whose meta-file gets written in the runs
MetaPaths == {FPathInfo("db", <<"1", "sst">>)}

\* The calls on EnvNVM.  A rename of a path to itself is left out: it would
\* use the NvmFile after DeleteFileUnguarded gave up its reference.
NvmNext ==
  \/ \E info \in Paths : NewWritableFile(info)
  \/ \E info \in MetaPaths : WriteMeta(info)
  \/ \E info_src \in Paths :
       \E info_tgt \in Paths \ {info_src} : RenameFile(info_src, info_tgt)
  \/ \E info \in Paths : DeleteFile(info)
  \/ \E info \in Paths : FileExists(info)

NvmSpec == Init /\ [][NvmNext]_vars

\* C13  Renaming across the NVM boundary fails: a RenameFile with exactly
\* one of source and target NVM-managed returns an IO error and leaves the
\* files of both environments as they are.
C13_RenameAcrossBoundaryFails ==
  [][\A info_src, info_tgt \in Paths :
       (RenameFile(info_src, info_tgt)
          /\ nvm_managed(info_src) # nvm_managed(info_tgt)) =>
         /\ nvm_status' = "IOError"
         /\ fs_' = fs_
         /\ posix_' = posix_]_vars

\* C21  DeleteFile removes the file for every kind of path: for a path of
\* the default environment a DeleteFile that returns OK leaves a state in
\* which FileExists on that path returns NotFound; for an NVM-managed path
\* a listed file leaves the listing with OK and a missing file gives
\* NotFound.
C21_DeleteFileRemoves ==
  [][\A info \in Paths :
       DeleteFile(info) =>
         IF ~nvm_managed(info)
         THEN nvm_status' = "OK" => FileExistsStatus(info)' = "NotFound"
         ELSE IF IsNamedAt(fs_[info.dpath], info.fname, 1) # 0
         THEN /\ nvm_status' = "OK"
              /\ IsNamedAt(fs_'[info.dpath], info.fname, 1) = 0
         ELSE /\ nvm_status' = "NotFound"
              /\ fs_' = fs_]_vars

----------------------------------------------------------------------------
\* Properties of BuildBatchGroup

\* leaders that hold the result of BuildBatchGroup
Built == {l \in Writers : pc[l] = "wal"}

RECURSIVE SumBytes(_)
SumBytes(group) ==
  IF group = <<>> THEN 0
  ELSE ByteSize(writer[Head(group)].batch) + SumBytes(Tail(group))

Max(a, b) == IF a >= b THEN a ELSE b

\* C4  Exclusion rules: apart from the initiating writer, a batch group holds
\* no writer with has_callback, none without a batch, no sync writer when
\* first is not sync, no writer that needs the WAL when first disables it and
\* no writer with a smaller timeout_hint; a first with has_callback is alone.
C4_ExclusionRules ==
  \A l \in Built :
    LET group == write_batch_group[l]
        first == Head(group)
    IN /\ \A i \in 2..Len(group) :
            LET w == group[i] IN
            /\ ~writer[w].has_callback
            /\ writer[w].batch # NoBatch
            /\ writer[w].sync => writer[first].sync
            /\ writer[first].disableWAL => writer[w].disableWAL
            /\ writer[w].timeout_hint_us >= writer[first].timeout_hint_us
       /\ writer[first].has_callback => group = <<first>>

\* a group of two was built and the third writer was left out
C4_Witness ==
  /\ pc[1] = "wal"
  /\ Len(write_batch_group[1]) = 2
  /\ Len(writers_) > 2
  /\ writer[writers_[3]].has_callback

\* w fails a predicate of the scan of leader l, given l's group
Rejected(l, w) ==
  \/ ~Compatible(writer, w, l)
  \/ SumBytes(write_batch_group[l]) + ByteSize(writer[w].batch)
       > MaxSize(ByteSize(writer[l].batch))

\* C5  Contiguity: the group is the prefix of writers_ that starts at the head
\* and ends at last_writer, the scan stopped at the first writer that fails a
\* predicate, and in_batch_group marks exactly the members past first.
C5_Contiguity ==
  \A l \in Built :
    LET group == write_batch_group[l] IN
    /\ Len(group) >= 1
    /\ Len(group) <= Len(writers_)
    /\ group = SubSeq(writers_, 1, Len(group))
    /\ Head(group) = l
    /\ last_writer[l] = Back(group)
    /\ {w \in Range(writers_) : writer[w].in_batch_group} = Range(group) \ {l}
    /\ (Len(group) < Len(writers_) /\ ~writer[l].has_callback)
         => Rejected(l, writers_[Len(group) + 1])

\* a writer that could have been merged stands behind a rejected one
C5_Witness ==
  /\ pc[1] = "wal"
  /\ Len(writers_) >= 3
  /\ last_writer[1] = 1
  /\ ~writer[1].has_callback
  /\ Compatible(writer, writers_[3], 1)
  /\ ~writer[writers_[3]].in_batch_group

\* C6 as stated: the bytes of a group are at most
\* max(1 MiB, first + 128 KiB) and at most 1 MiB absolutely.
C6_Original ==
  \A l \in Built :
    LET total == SumBytes(write_batch_group[l])
        first_batch_size == ByteSize(writer[l].batch)
    IN /\ total <= Max(1048576, first_batch_size + 128 * KiB)
       /\ total <= 1048576

\* C6  Batch size cap: the bytes of a group are at most
\* max(1 MiB, first + 128 KiB); they are at most 1 MiB whenever first's own
\* batch is, and a first batch above 1 MiB forms its group alone.
C6_SizeCap ==
  \A l \in Built :
    LET total == SumBytes(write_batch_group[l])
        first_batch_size == ByteSize(writer[l].batch)
    IN /\ total <= Max(1048576, first_batch_size + 128 * KiB)
       /\ first_batch_size <= 1048576 => total <= 1048576
       /\ first_batch_size > 1048576 => write_batch_group[l] = <<l>>
       /\ Len(write_batch_group[l]) > 1 => total <= MaxSize(first_batch_size)

\* the scan stopped because the next batch would exceed the cap
C6_Witness ==
  /\ pc[1] = "wal"
  /\ Len(write_batch_group[1]) >= 2
  /\ size[1] > MaxSize(ByteSize(writer[1].batch))

\* C14  Returned size: the value BuildBatchGroup returns is the sum of the
\* byte sizes of the batches of exactly the writers of the group, also when
\* the scan stopped at the size cap.
C14_ReturnedSize ==
  \A l \in Built : size[l] = SumBytes(write_batch_group[l])

Min(a, b) == IF a <= b THEN a ELSE b

\* the cap that the leader which built its group applied
AppliedMaxSize(l) == BuildBatchGroupResult(writers_, writer).max_size

\* the writer behind l's group could be merged as far as the first five
\* breaks of the scan go
NextMergeable(l) ==
  /\ Len(write_batch_group[l]) < Len(writers_)
  /\ ~writer[l].has_callback
  /\ Compatible(writer, writers_[Len(write_batch_group[l]) + 1], l)

\* the group of l was cut by cap: it grew only within cap and the next
\* writer, when only its size stood in the way, would have passed cap
CutBy(l, cap) ==
  LET total == SumBytes(write_batch_group[l]) IN
  /\ Len(write_batch_group[l]) > 1 => total <= cap
  /\ NextMergeable(l) =>
       total + ByteSize(writer[writers_[Len(write_batch_group[l]) + 1]].batch)
         > cap

\* C15 as stated: the cap is min(1 MiB, size + 128 KiB) for every size of
\* first's batch.
C15_Original ==
  \A l \in Built :
    LET sz == ByteSize(writer[l].batch) IN
    /\ AppliedMaxSize(l) = Min(1048576, sz + 128 * KiB)
    /\ CutBy(l, Min(1048576, sz + 128 * KiB))

\* C15  Size cap formula: the cap is size + 128 KiB when first's batch has at
\* most 128 KiB and 1 MiB otherwise, and the group is cut by exactly this cap.
C15_SizeCapFormula ==
  \A l \in Built :
    LET sz == ByteSize(writer[l].batch) IN
    /\ sz <= 131072 => AppliedMaxSize(l) = sz + 131072 /\ CutBy(l, sz + 131072)
    /\ sz > 131072 => AppliedMaxSize(l) = 1048576 /\ CutBy(l, 1048576)

\* a first batch of 512 KiB took a second batch of 512 KiB: 1 MiB in all,
\* above 512 KiB + 128 KiB
C15_Witness ==
  /\ pc[1] = "wal"
  /\ Len(writers_) >= 2
  /\ ByteSize(writer[1].batch) = 512 * KiB
  /\ ByteSize(writer[2].batch) = 512 * KiB
  /\ write_batch_group[1] = <<1, 2>>

\* a has less patience than b: a gives up after a microseconds, b never
\* (0) or later
ShorterPatience(a, b) == a # 0 /\ (b = 0 \/ a < b)

\* C16  Shorter-patience writers are never absorbed: no member of a group
\* has a shorter acceptable queue wait than first, timeout_hint 0 being
\* unlimited patience.
C16_ShorterPatienceNeverAbsorbed ==
  \A l \in Built :
    \A i \in 2..Len(write_batch_group[l]) :
      ~ShorterPatience(writer[write_batch_group[l][i]].timeout_hint_us,
                       writer[l].timeout_hint_us)

----------------------------------------------------------------------------
\* Properties of the protocol

\* pcs of a writer that returned from enter as leader and has not completed
\* ExitWriteThread or LeaderEndParallel
LeaderPcs == {"leader", "wal", "parallel_leader", "leader_wait_entry",
              "leader_wait", "leader_end"}

\* pcs of a leader between the return of StartParallelRun and the pop of
\* LeaderEndParallel
RunPcs == {"parallel_leader", "leader_wait_entry", "leader_wait", "leader_end"}

ActiveLeaders == {w \in Writers : pc[w] \in LeaderPcs}

HeadLeaders ==
  {w \in Writers : /\ writers_ # <<>>
                   /\ Head(writers_) = w
                   /\ pc[w] # "init"
                   /\ writer[w].parallel_execute_id = 0
                   /\ ~writer[w].done}

\* C1  At most one leader: at most one writer is the head of writers_ with
\* parallel_execute_id = 0 and done = false, and at most one writer has
\* returned from enter as leader without having completed exit or
\* leader_end_parallel.
C1_AtMostOneLeader ==
  /\ Cardinality(HeadLeaders) <= 1
  /\ Cardinality(ActiveLeaders) <= 1

\* a follower has been woken while the leader is still at work
C1_Witness ==
  \E l \in ActiveLeaders :
    \E w \in Writers \ {l} : pc[w] = "enter_wait" /\ woken[w]

Committed == UNION {Range(log[i]) : i \in 1..Len(log)}

\* C3  FIFO order: writers become leader in the order of their insertion into
\* writers_ (the writers are numbered in that order), the i-th committed group
\* is the group of the i-th leader, and every writer of an earlier group was
\* inserted before every writer of a later group.
C3_FIFO ==
  /\ \A i, j \in 1..Len(leaders) : i < j => leaders[i] < leaders[j]
  /\ Len(log) <= Len(leaders)
  /\ \A i \in 1..Len(log) :
       /\ Head(log[i]) = leaders[i]
       /\ \A m, n \in 1..Len(log[i]) : m < n => log[i][m] < log[i][n]
  /\ \A i, j \in 1..Len(log) :
       i < j => \A a \in Range(log[i]), b \in Range(log[j]) : a < b

\* two groups were committed, the second after a timed-out writer was skipped
C3_Witness ==
  /\ Len(log) >= 2
  /\ \E w \in Writers : ret[w] = "TimedOut" /\ w < Head(log[2])

\* C7  Timeout never cancels a write in progress: a writer reported TimedOut
\* has in_batch_group = false and parallel_execute_id = 0 and is in no batch
\* group; a timed wait that expires on a merged writer leaves it in writers_
\* and makes its wait untimed, and a merged writer returns OK with done set.
C7_TimeoutNeverCancels ==
  /\ [](\A w \in Writers :
          /\ ret[w] = "TimedOut" =>
               /\ ~writer[w].in_batch_group
               /\ writer[w].parallel_execute_id = 0
               /\ ~writer[w].done
               /\ w \notin Committed
               /\ \A l \in Writers : w \notin Range(write_batch_group[l])
          /\ (writer[w].in_batch_group /\ pc[w] = "returned") =>
               (ret[w] = "OK" /\ writer[w].done))
  /\ [][\A w \in Writers :
          (EnterTimedWaitExpires(w) /\ writer[w].in_batch_group) =>
             /\ ret'[w] # "TimedOut"
             /\ writers_' = writers_
             /\ expiration_time'[w] = 0]_vars

\* a merged writer whose timed wait expired has returned OK
C7_Witness ==
  \E w \in Writers :
    /\ writer[w].timeout_hint_us # 0
    /\ expiration_time[w] = 0
    /\ writer[w].in_batch_group
    /\ pc[w] = "returned"
    /\ ret[w] = "OK"

\* the head of writers_ is blocked in an untimed wait of enter, neither done
\* nor promoted
HeadWaitsUntimed ==
  /\ writers_ # <<>>
  /\ pc[Head(writers_)] = "enter_wait"
  /\ expiration_time[Head(writers_)] = 0
  /\ writer[Head(writers_)].parallel_execute_id = 0
  /\ ~writer[Head(writers_)].done

\* C8  Timeout repair: a follower that times out is erased from writers_, the
\* others keep their order, and in the same step writers_ is empty or the cv
\* of its head is signaled; the head of writers_ is never blocked in enter
\* without a pending wake-up, and a head that waits untimed to lead becomes
\* leader.
C8_TimeoutRepair ==
  /\ [][\A w \in Writers :
          (EnterTimedWaitExpires(w) /\ ret'[w] = "TimedOut") =>
             /\ w \in Range(writers_)
             /\ writers_' = Erase(writers_, w)
             /\ writers_' = <<>> \/ Head(writers_') \in signaled']_vars
  /\ [](writers_ # <<>> /\ pc[Head(writers_)] = "enter_wait"
          => woken[Head(writers_)])
  /\ HeadWaitsUntimed ~> (writers_ # <<>> /\ pc[Head(writers_)] = "leader")

\* a writer behind the one that timed out waits untimed at the head, nobody
\* leads, and the timeout has signaled it
C8_Witness ==
  \E b, c \in Writers :
    /\ b < c
    /\ ret[b] = "TimedOut"
    /\ HeadWaitsUntimed
    /\ Head(writers_) = c
    /\ signaled = {c}
    /\ woken[c]
    /\ ActiveLeaders = {}

\* C9  Parallel-run barrier: between the return of StartParallelRun and the
\* pop of LeaderEndParallel, last_writer is the head of writers_ and the back
\* of parallel_writers_, no writer outside the run is a leader, and no
\* assertion fails.
C9_Barrier ==
  /\ assert_ok
  /\ \A l \in Writers :
       pc[l] \in RunPcs =>
         /\ writers_ # <<>>
         /\ Head(writers_) = last_writer[l]
         /\ parallel_writers_ # <<>>
         /\ Back(parallel_writers_) = last_writer[l]
         /\ Head(parallel_writers_) = l
         /\ Len(parallel_writers_) = run.threads
         /\ ActiveLeaders \subseteq {l}

\* at the end of a run of two or more, a newcomer is queued behind last_writer
C9_Witness ==
  \E l \in Writers :
    /\ pc[l] = "leader_end"
    /\ Len(parallel_writers_) >= 2
    /\ Len(writers_) >= 2

\* C10  Parallel completion: of the report_parallel_finish calls of a run
\* exactly one returns true, the one that takes unfinished_threads_ from 1 to
\* 0; the counter never goes below 0 and is 0 when the next run starts.
C10_ParallelCompletion ==
  /\ [](/\ unfinished_threads_ >= 0
        /\ unfinished_threads_ = run.threads - Cardinality(run.reported)
        /\ run.reported \subseteq run.participants
        /\ Cardinality(run.returned_true) <= 1
        /\ (run.id > 0 /\ run.reported = run.participants)
             => Cardinality(run.returned_true) = 1
        /\ run.zero_at_start)
  /\ [][\A w \in Writers :
          ReportParallelRunFinish(w) =>
            /\ w \in run.participants \ run.reported
            /\ need_wake_up_leader'[w] =
                 (unfinished_threads_ = 1 /\ unfinished_threads_' = 0)]_vars

\* a second run, of two threads, has been reported finished by both
C10_Witness ==
  /\ run.id >= 2
  /\ Cardinality(run.participants) >= 2
  /\ run.reported = run.participants

\* C12  Status propagation: ExitWriteThread pops the head writers up to and
\* including last_writer; each popped writer but the leader ends with the
\* passed status, done and its cv signaled; the writers behind stay in their
\* order with done and status untouched, and the new head is signaled.
C12_StatusPropagation ==
  [][\A w \in Writers, status \in Statuses :
       ExitWriteThread(w, status) =>
         LET i == IndexOf(writers_, last_writer[w], 1)
             popped == {writers_[k] : k \in 1..i}
         IN /\ i <= Len(writers_)
            /\ writers_' = SubSeq(writers_, i + 1, Len(writers_))
            /\ \A x \in popped \ {w} :
                 /\ writer'[x].status = status
                 /\ writer'[x].done
                 /\ x \in signaled'
                 /\ pc[x] \in CvWait => woken'[x]
            /\ \A x \in Range(writers_') :
                 /\ writer'[x].done = writer[x].done
                 /\ writer'[x].status = writer[x].status
            /\ writers_' # <<>> => Head(writers_') \in signaled']_vars

\* a leader left with a failed write: its follower holds the status and the
\* writer that was behind them is the signaled new head
C12_Witness ==
  \E l, f, h \in Writers :
    /\ l # f /\ f # h /\ l # h
    /\ pc[l] = "returned"
    /\ log # <<>> /\ log[Len(log)] = <<l, f>>
    /\ writer[f].done /\ writer[f].status = "IOError"
    /\ writers_ = <<h>>
    /\ signaled = {f, h}
    /\ ~writer[h].done

\* C17  Termination barrier: EndParallelRun of a worker returns only with the
\* worker's done set, and done of a participant of a run is set only by the
\* leader in LeaderEndParallel, when unfinished_threads_ is 0 and every
\* participant, the leader included, has reported; also for a worker that
\* has not yet started to wait on self_cv.
C17_TerminationBarrier ==
  /\ [][\A w \in Writers :
          (EndParallelRunWait(w) /\ pc'[w] = "returned") =>
            /\ writer[w].done
            /\ w \notin Range(leaders)]_vars
  /\ [][\A w \in Writers :
          (writer[w].parallel_execute_id > 0 /\ ~writer[w].done
             /\ writer'[w].done) =>
            /\ unfinished_threads_ = 0
            /\ w \in run.participants
            /\ run.reported = run.participants
            /\ run.leader # w
            /\ pc[run.leader] = "leader_end"
            /\ pc[w] \in {"end_signal", "end_self", "self_wait"}]_vars

\* the leader has set done of a worker that has not yet locked self_mutex
C17_Witness ==
  \E w \in Writers :
    /\ pc[w] \in {"end_signal", "end_self"}
    /\ writer[w].done
    /\ w \in run.participants
    /\ pc[run.leader] = "leader_end"

\* writers whose write is complete: enter, exit, LeaderEndParallel or
\* EndParallelRun has returned and the write did not time out
Complete == {w \in Writers : pc[w] = "returned" /\ ret[w] = "OK"}

\* C18 as stated: every writer that completes without timing out has done set
\* at that point, the leader too, and done is never cleared.
C18_Original ==
  \A w \in Complete : writer[w].done

\* C18  Terminal state: an absorbed follower and a promoted worker complete
\* with done set; a leader completes with done still false, as neither
\* ExitWriteThread nor LeaderEndParallel sets the leader's own flag; done,
\* once set, is never cleared.
C18_TerminalDone ==
  /\ [](\A w \in Complete : writer[w].done <=> w \notin Range(leaders))
  /\ [](\A w \in Range(leaders) : ~writer[w].done)
  /\ [][\A w \in Writers : writer[w].done => writer'[w].done]_vars

\* the leader of a parallel run and its promoted worker have completed, after
\* an earlier writer completed as the leader of a group of one
C18_Witness ==
  \E e, l, p \in Complete :
    /\ log = <<(<<e>>), (<<l, p>>)>>
    /\ run.leader = l
    /\ ~writer[e].done /\ ~writer[l].done
    /\ writer[p].done /\ writer[p].parallel_execute_id > 0

\* number of groups of gs that hold w
RECURSIVE GroupsOf(_, _)
GroupsOf(gs, w) ==
  IF gs = <<>> THEN 0
  ELSE (IF w \in Range(Head(gs)) THEN 1 ELSE 0) + GroupsOf(Tail(gs), w)

\* the groups built so far: the committed ones and the one a leader holds
\* between BuildBatchGroup and its commit
BuiltGroups ==
  LET held == {l \in Writers : pc[l] = "wal"} IN
  IF held = {} THEN log
  ELSE Append(log, write_batch_group[CHOOSE l \in held : TRUE])

\* C19  Exactly-once commit: a writer is in at most one group, once; a writer
\* that completed without timing out is in exactly one committed group; a
\* writer that timed out is in none; done is set only on members of a
\* committed group.
C19_ExactlyOnce ==
  /\ Cardinality({l \in Writers : pc[l] = "wal"}) <= 1
  /\ \A i \in 1..Len(BuiltGroups) :
       Cardinality(Range(BuiltGroups[i])) = Len(BuiltGroups[i])
  /\ \A w \in Writers :
       /\ GroupsOf(BuiltGroups, w) <= 1
       /\ w \in Complete => GroupsOf(log, w) = 1
       /\ ret[w] = "TimedOut" => GroupsOf(BuiltGroups, w) = 0
       /\ writer[w].done => w \in Committed
       /\ writer[w].in_batch_group => GroupsOf(BuiltGroups, w) = 1

\* a writer timed out between two writers that were committed in two groups
C19_Witness ==
  \E a, b, c \in Writers :
    /\ a < b /\ b < c
    /\ ret[b] = "TimedOut"
    /\ {a, c} \subseteq Complete
    /\ Len(log) = 2
    /\ a \in Range(log[1]) /\ c \in Range(log[2])

\* writers whose owner may destroy them: enter returned TimedOut or after the
\* writer was absorbed, EndParallelRun returned, or the leader's
\* ExitWriteThread or LeaderEndParallel returned
Released == {x \in Writers : pc[x] = "returned"}

\* C20  No access to a released Writer: no step signals the cv or self_cv,
\* locks the self_mutex or reads or writes a field of a writer that was
\* released before the step, and whenever the queue mutex is free neither
\* writers_ nor parallel_writers_ holds a released writer.
C20_NoAccessToReleased ==
  /\ [](mutex = NoWriter =>
          (Range(writers_) \cup Range(parallel_writers_)) \cap Released = {})
  /\ [][(deref' \cup signaled') \cap Released = {}]_vars

\* the last worker of a run has returned from EndParallelRun while the
\* leader, past the tagging loop, still has it in both queues
C20_Witness ==
  \E l, p \in Writers :
    /\ pc[l] = "leader_end"
    /\ it > Len(parallel_writers_)
    /\ p \in Released
    /\ p = Head(writers_)
    /\ p = Back(parallel_writers_)
    /\ Len(writers_) >= 2

\* C11  Cfd union: when LeaderEndParallel returns, the leader's cfd_set is
\* the union of the cfd_sets of the participants of the run, its own
\* included: every column family a thread of the run inserted into and no
\* other.
C11_CfdUnion ==
  [][\A l \in Writers :
       (LeaderEndParallelPop(l) /\ pc'[l] = "returned") =>
         /\ run.leader = l
         /\ Range(parallel_writers_) = run.participants
         /\ writer'[l].cfd_set = run.cfds
         /\ writer'[l].cfd_set =
              UNION {writer[x].cfd_set : x \in run.participants}
         /\ \A x \in run.participants \ {l} :
              writer'[x].cfd_set \subseteq writer'[l].cfd_set]_vars

\* a run of three returned: the leader's set holds both column families,
\* one worker touched only the first and another only the second
C11_Witness ==
  \E l, p, q \in Writers :
    /\ run.leader = l /\ run.participants = {l, p, q}
    /\ pc[l] = "returned"
    /\ writer[p].cfd_set = {"default"}
    /\ writer[q].cfd_set = {"cf1"}
    /\ writer[l].cfd_set = ColumnFamilies

----------------------------------------------------------------------------
\* Progress

\* the steps of thread w that its own code takes: everything but a new call
\* of enter, the expiry of a timed wait and a spurious wake-up
ThreadStep(w) ==
  \/ EnterWakeUp(w)
  \/ BuildBatchGroup(w)
  \/ \E status \in Statuses : ExitWriteThread(w, status)
  \/ StartParallelRun(w)
  \/ ReportParallelRunFinish(w)
  \/ LeaderWaitEndParallel(w)
  \/ LeaderEndParallelTag(w)
  \/ LeaderEndParallelPop(w)
  \/ EndParallelRunWakeLeader(w)
  \/ EndParallelRunWait(w)

\* options of the writers of the progress runs: an untimed and a timed writer
LiveOptions ==
  {Options(1 * KiB, FALSE, FALSE, FALSE, 0),
   Options(1 * KiB, FALSE, FALSE, FALSE, 1)}

FairNext ==
  \E w \in Writers :
    \/ \E o \in LiveOptions :
         EnterWriteThread(w, o, IF o.timeout_hint_us = 0 THEN 0 ELSE 1)
    \/ EnterWakeUp(w)
    \/ EnterTimedWaitExpires(w)
    \/ SpuriousWakeUp(w)
    \/ BuildBatchGroup(w)
    \/ \E status \in Statuses : ExitWriteThread(w, status)
    \/ StartParallelRun(w)
    \/ ReportParallelRunFinish(w)
    \/ LeaderWaitEndParallel(w)
    \/ LeaderEndParallelTag(w)
    \/ LeaderEndParallelPop(w)
    \/ EndParallelRunWakeLeader(w)
    \/ EndParallelRunWait(w)

\* Every thread that can take a step of its own code eventually takes one.
FairSpec ==
  Init /\ [][FairNext]_vars /\ \A w \in Writers : WF_vars(ThreadStep(w))

\* C2  No stall, no lost wakeup: every writer is in the end outside the
\* protocol for good, because it never called enter or because its call of
\* enter, exit, leader_end_parallel or end_parallel_run has returned; no
\* writer stays blocked on its cv or self_cv.
C2_NoStall ==
  \A w \in Writers : <>[](pc[w] \in {"init", "returned"})

\* a parallel worker blocked on self_cv while the leader waits for the run
C2_Witness ==
  \E l, w \in Writers :
    /\ pc[l] = "leader_wait"
    /\ pc[w] = "self_wait"
    /\ \E v \in Writers : pc[v] = "enter_wait" /\ expiration_time[v] = 0

====
